---- MODULE Spec2Model ----
(***************************************************************************)
(* A model of the Telegram YouTube downloader bot of src/app.py: the       *)
(* stream filter of YouTubeDownloader, and the two handlers of TelegramBot *)
(* (handle_message, handle_callback) with the per-user session dictionary, *)
(* the callback payloads and the temporary download directory.             *)
(*                                                                         *)
(* Python strings are sequences of one-character strings, None is the      *)
(* empty tuple << >> and a present value v is the one-element tuple <<v>>. *)
(***************************************************************************)
EXTENDS Integers, Sequences, FiniteSets, TLC

\* ------------------------------------------------------------------
\* Bounds of the model
\* ------------------------------------------------------------------

\* longest list of encodings the provider returns in SpecStreams
MaxLen == 2

\* number of updates (text or selection events) the bot processes in Spec
MaxEvents == 3

\* ------------------------------------------------------------------
\* Python string operations used by the program
\* ------------------------------------------------------------------

None == << >>

Some(v) == << v >>

Digits == << "0", "1", "2", "3", "4", "5", "6", "7", "8", "9" >>

IsDigit(c) == \E i \in 1..10 : Digits[i] = c

DigitVal(c) == (CHOOSE i \in 1..10 : Digits[i] = c) - 1

\* str.strip(): leading and trailing whitespace removed
RECURSIVE LStrip(_)
LStrip(s) == IF s # << >> /\ Head(s) = " " THEN LStrip(Tail(s)) ELSE s

RECURSIVE RStrip(_)
RStrip(s) ==
    IF s # << >> /\ s[Len(s)] = " " THEN RStrip(SubSeq(s, 1, Len(s) - 1)) ELSE s

Strip(s) == RStrip(LStrip(s))

\* the value of a non-empty string of decimal digits
RECURSIVE DigitsVal(_)
DigitsVal(s) ==
    IF s = << >> THEN 0
    ELSE 10 * DigitsVal(SubSeq(s, 1, Len(s) - 1)) + DigitVal(s[Len(s)])

AllDigits(s) == s # << >> /\ \A i \in 1..Len(s) : IsDigit(s[i])

\* int(s): None stands for the ValueError that int() raises
ParseInt(s) ==
    LET t == Strip(s)
        signed == t # << >> /\ Head(t) \in {"+", "-"}
        body == IF signed THEN Tail(t) ELSE t
    IN  IF ~AllDigits(body) THEN None
        ELSE IF signed /\ Head(t) = "-" THEN Some(0 - DigitsVal(body))
        ELSE Some(DigitsVal(body))

\* str(n) for an integer n, as an f-string formats it
RECURSIVE NatToStr(_)
NatToStr(n) ==
    IF n < 10 THEN << Digits[n + 1] >>
    ELSE NatToStr(n \div 10) \o << Digits[(n % 10) + 1] >>

IntToStr(n) == IF n < 0 THEN << "-" >> \o NatToStr(0 - n) ELSE NatToStr(n)

\* s.split(sep) for a one-character separator
Split(s, sep) ==
    LET seps == { i \in 1..Len(s) : s[i] = sep }
        m == Cardinality(seps)
        cut == [j \in 0..(m + 1) |->
                  IF j = 0 THEN 0
                  ELSE IF j = m + 1 THEN Len(s) + 1
                  ELSE CHOOSE i \in seps : Cardinality({ x \in seps : x < i }) = j - 1]
    IN  [j \in 1..(m + 1) |-> SubSeq(s, cut[j - 1] + 1, cut[j] - 1)]

\* s.startswith(p)
StartsWith(s, p) == Len(s) >= Len(p) /\ SubSeq(s, 1, Len(p)) = p

\* s.replace(c, '')
RemoveChar(s, c) == SelectSeq(s, LAMBDA x : x # c)

\* sub in s
Contains(s, sub) ==
    \E i \in 1..(Len(s) - Len(sub) + 1) : SubSeq(s, i, i + Len(sub) - 1) = sub

UpperLetters ==
    << "A", "B", "C", "D", "E", "F", "G", "H", "I", "J", "K", "L", "M",
       "N", "O", "P", "Q", "R", "S", "T", "U", "V", "W", "X", "Y", "Z" >>

LowerLetters ==
    << "a", "b", "c", "d", "e", "f", "g", "h", "i", "j", "k", "l", "m",
       "n", "o", "p", "q", "r", "s", "t", "u", "v", "w", "x", "y", "z" >>

LowerChar(c) ==
    IF \E i \in 1..26 : UpperLetters[i] = c
    THEN LowerLetters[CHOOSE i \in 1..26 : UpperLetters[i] = c]
    ELSE c

\* s.lower()
Lower(s) == [i \in 1..Len(s) |-> LowerChar(s[i])]

\* ------------------------------------------------------------------
\* YouTubeDownloader
\* ------------------------------------------------------------------

MAX_FILE_SIZE == 50 * 1024 * 1024

\* the sizes a stream can declare: missing, zero, small, the ceiling, above it
FileSizes == { None, Some(0), Some(1), Some(MAX_FILE_SIZE), Some(MAX_FILE_SIZE + 1) }

\* resolution labels of the provider's streams ("360p", "720p") or None
Resolutions == { None, Some(<< "3", "6", "0", "p" >>), Some(<< "7", "2", "0", "p" >>) }

\* what the provider reports about a stream, its itag aside: progressive or
\* adaptive, mp4 or webm, with a label and a size or without
StreamAttrs ==
    [resolution : Resolutions, filesize : FileSizes,
     is_progressive : BOOLEAN, subtype : {"mp4", "webm"}]

\* the itags of a provider's list are distinct: the itag of its i-th stream
ItagAt(i) == << 18, 22, 37, 43, 59, 78 >>[i]

\* the lists of at most len streams
StreamLists(len) ==
    { [i \in 1..Len(a) |-> [itag |-> ItagAt(i), resolution |-> a[i].resolution,
                       filesize |-> a[i].filesize,
                       is_progressive |-> a[i].is_progressive,
                       subtype |-> a[i].subtype]] :
        a \in UNION { [1..k -> StreamAttrs] : k \in 0..len } }

\* Python truth of a size: None and 0 are both false
Truthy(z) == z # None /\ z[1] # 0

\* yt.streams.filter(progressive=True, file_extension='mp4')
\* (the positions, in the provider's order, of the streams it keeps)
FilterProgressiveMp4(streams) ==
    SelectSeq([i \in 1..Len(streams) |-> i],
              LAMBDA i : streams[i].is_progressive /\ streams[i].subtype = "mp4")

\* the size test with the ceiling itself shut out
SizeOk_strict(z) == Truthy(z) /\ z[1] < MAX_FILE_SIZE

\* the size test of the loop body
SizeOk(z) == Truthy(z) /\ z[1] <= MAX_FILE_SIZE

\* the sort key: int(resolution.replace('p', '')) if resolution else 0
\* (None stands for the ValueError of int())
SortKey(s) ==
    IF s.resolution = None \/ s.resolution[1] = << >> THEN Some(0)
    ELSE ParseInt(RemoveChar(s.resolution[1], "p"))

\* the key of a dictionary whose label int() accepts
KeyOf(d) == SortKey(d)[1]

\* list.sort(key=..., reverse=True): stable, descending; an element is placed
\* after every element whose key is not smaller
\* an insertion that puts an element before the elements of the same key, as a
\* sort does that sorts ascending and reverses the result
RECURSIVE InsertDesc_unstable(_, _)
InsertDesc_unstable(sorted, e) ==
    IF sorted = << >> THEN << e >>
    ELSE IF KeyOf(Head(sorted)) > KeyOf(e)
         THEN << Head(sorted) >> \o InsertDesc_unstable(Tail(sorted), e)
         ELSE << e >> \o sorted

RECURSIVE InsertDesc(_, _)
InsertDesc(sorted, e) ==
    IF sorted = << >> THEN << e >>
    ELSE IF KeyOf(Head(sorted)) >= KeyOf(e)
         THEN << Head(sorted) >> \o InsertDesc(Tail(sorted), e)
         ELSE << e >> \o sorted

RECURSIVE SortDesc(_)
SortDesc(l) ==
    IF l = << >> THEN << >>
    ELSE InsertDesc(SortDesc(SubSeq(l, 1, Len(l) - 1)), l[Len(l)])

\* the dictionary appended for the stream at position i of yt.streams that
\* passes the size test; 'stream' is the stream object itself, known by its
\* position in the provider's list
StreamDict(s, i) ==
    [itag |-> s.itag, resolution |-> s.resolution, filesize |-> s.filesize[1],
     stream |-> i]

\* get_progressive_streams(yt): yt.streams is None when reading it raises
get_progressive_streams(streams) ==
    IF streams = None THEN << >>
    ELSE LET all == streams[1]
             prog == FilterProgressiveMp4(all)
             sized == SelectSeq(prog, LAMBDA i : SizeOk(all[i].filesize))
             valid == [k \in 1..Len(sized) |-> StreamDict(all[sized[k]], sized[k])]
         IN  IF \E k \in 1..Len(valid) : SortKey(valid[k]) = None THEN << >>
             ELSE SortDesc(valid)

\* a download that hands back the path also when stream.download raised
download_stream_path_anyway(ok, inv) == Some([kind |-> "file", inv |-> inv])

\* download_stream(stream, temp_dir): the path of the downloaded file, or None
\* when stream.download raises
download_stream(ok, inv) == IF ok THEN Some([kind |-> "file", inv |-> inv]) ELSE None

\* ------------------------------------------------------------------
\* The environment: requesters, chats, texts, the provider's answers
\* ------------------------------------------------------------------

Users == { 1, 2 }

\* a group chat both users are members of (Telegram's group ids are negative);
\* user 1 also talks to the bot in a private chat, which has the user's id
GroupChats == { 0 - 3 }

PrivateChats == { 1 }

Chats == PrivateChats \cup GroupChats

Member(u, c) == (c \in PrivateChats /\ c = u) \/ c \in GroupChats

URL_A == << "y", "o", "u", "t", "u", ".", "b", "e", "/", "a" >>

URL_B == << " ", "Y", "o", "u", "T", "u", ".", "b", "e", "/", "b" >>

NOT_A_URL == << "h", "e", "l", "l", "o" >>

\* the texts a user sends
Texts == { URL_A, URL_B, NOT_A_URL }

\* the video a URL names: the provider's reading of the URL's last path segment
VideoOf(url) == << LowerChar(url[Len(url)]) >>

Enc(i, r, z) ==
    [itag |-> i, resolution |-> r, filesize |-> z,
     is_progressive |-> TRUE, subtype |-> "mp4"]

P360 == Some(<< "3", "6", "0", "p" >>)

P720 == Some(<< "7", "2", "0", "p" >>)

\* the lists of streams the provider answers with: none, two that fit, one that
\* fits beside one above the ceiling, one of unknown size
ProviderLists ==
    { << >>,
      << Enc(18, P360, Some(1)), Enc(22, P720, Some(MAX_FILE_SIZE)) >>,
      << Enc(22, P720, Some(MAX_FILE_SIZE + 1)), Enc(18, P360, Some(1)) >>,
      << Enc(22, P720, None) >> }

\* YouTube(url), as get_video_info returns it: None when the constructor
\* raises; streams is None when reading yt.streams raises, meta_ok says whether
\* yt.title, yt.author and yt.length can be read
get_video_info(url) ==
    { None } \cup
    { Some([video_id |-> VideoOf(url), streams |-> l, meta_ok |-> m]) :
        l \in { None } \cup { Some(x) : x \in ProviderLists }, m \in BOOLEAN }

\* ------------------------------------------------------------------
\* The texts of the bot's replies (without their emoji)
\* ------------------------------------------------------------------

MSG_INVALID_URL == "Please send a valid YouTube URL."

MSG_PROCESSING == "Processing YouTube URL..."

MSG_INFO_FAILED == "Failed to get video information. Please check the URL and try again."

MSG_NO_STREAMS == "No suitable video streams found."

MSG_CHOOSE == "Choose quality to download:"

MSG_PROCESS_ERROR == "An error occurred while processing the video. Please try again."

MSG_EXPIRED == "Session expired. Please send the YouTube URL again."

MSG_DOWNLOADING == "Downloading video... Please wait."

MSG_CB_INFO_FAILED == "Failed to get video information."

MSG_UNAVAILABLE == "Selected quality is no longer available."

MSG_DOWNLOAD_FAILED == "Failed to download video."

MSG_UPLOADING == "Uploading video..."

MSG_SENT == "Video sent successfully!"

MSG_DOWNLOAD_ERROR == "An error occurred during download. Please try again."

\* ------------------------------------------------------------------
\* TelegramBot: helpers
\* ------------------------------------------------------------------

youtube_domains ==
    { << "y", "o", "u", "t", "u", "b", "e", ".", "c", "o", "m" >>,
      << "w", "w", "w", ".", "y", "o", "u", "t", "u", "b", "e", ".", "c", "o", "m" >>,
      << "m", ".", "y", "o", "u", "t", "u", "b", "e", ".", "c", "o", "m" >>,
      << "y", "o", "u", "t", "u", ".", "b", "e" >> }

\* a check that takes any text that is not empty
is_youtube_url_any(url) == url # << >>

\* _is_youtube_url(url)
is_youtube_url(url) == \E domain \in youtube_domains : Contains(Lower(url), domain)

DOWNLOAD_ == << "d", "o", "w", "n", "l", "o", "a", "d", "_" >>

VIDEO_URL_ == << "v", "i", "d", "e", "o", "_", "u", "r", "l", "_" >>

\* the payload with its two numbers in the other order
callback_data_swapped(itag, chat_id) ==
    DOWNLOAD_ \o IntToStr(chat_id) \o << "_" >> \o IntToStr(itag)

\* f"download_{stream['itag']}_{update.message.chat.id}"
callback_data(itag, chat_id) ==
    DOWNLOAD_ \o IntToStr(itag) \o << "_" >> \o IntToStr(chat_id)

\* f'video_url_{chat_id}'
SessionKey(chat_id) == VIDEO_URL_ \o IntToStr(chat_id)

\* the keyboard of handle_message: one button per stream, in the list's order
Keyboard(streams, chat_id) ==
    [k \in 1..Len(streams) |-> callback_data(streams[k].itag, chat_id)]

\* dict.get(key)
DictGet(d, k) == IF k \in DOMAIN d THEN Some(d[k]) ELSE None

\* d[key] = value
DictSet(d, k, v) == [x \in (DOMAIN d) \cup {k} |-> IF x = k THEN v ELSE d[x]]

\* d.pop(key, None)
DictPop(d, k) == [x \in (DOMAIN d) \ {k} |-> d[x]]

\* a write that keeps the entry a key already has
SessionWrite_keep_first(d, key, url) == IF key \in DOMAIN d THEN d ELSE DictSet(d, key, url)

\* context.user_data[f'video_url_{chat_id}'] = message_text
SessionWrite(d, key, url) == DictSet(d, key, url)

\* a lookup that falls back to the first stream when the selected itag is gone
FindStream_fallback(streams, itag) ==
    IF \E i \in 1..Len(streams) : streams[i].itag = itag
    THEN Some(CHOOSE i \in 1..Len(streams) :
                /\ streams[i].itag = itag
                /\ \A j \in 1..(i - 1) : streams[j].itag # itag)
    ELSE IF streams # << >> THEN Some(1) ELSE None

\* the first stream of yt.streams with the selected itag, None if there is none
FindStream(streams, itag) ==
    IF \E i \in 1..Len(streams) : streams[i].itag = itag
    THEN Some(CHOOSE i \in 1..Len(streams) :
                /\ streams[i].itag = itag
                /\ \A j \in 1..(i - 1) : streams[j].itag # itag)
    ELSE None

\* a cleanup written at the end of the block, which an exception skips
ExitTempDir_at_end(d, inv, raised) == IF raised THEN d ELSE { p \in d : p.inv # inv }

\* leaving the block of tempfile.TemporaryDirectory(), by running off its end,
\* by a return or by an exception: the directory of invocation inv and the
\* files in it are removed
ExitTempDir(d, inv, raised) == { p \in d : p.inv # inv }

\* the callback payloads a client sends that no button of the bot carries:
\* download_22, download_x_1, upload_22_1, download_22_1_1, download_18_x
CraftedData ==
    { << "d", "o", "w", "n", "l", "o", "a", "d", "_", "2", "2" >>,
      << "d", "o", "w", "n", "l", "o", "a", "d", "_", "x", "_", "1" >>,
      << "u", "p", "l", "o", "a", "d", "_", "2", "2", "_", "1" >>,
      << "d", "o", "w", "n", "l", "o", "a", "d", "_", "2", "2", "_", "1", "_", "1" >>,
      << "d", "o", "w", "n", "l", "o", "a", "d", "_", "1", "8", "_", "x" >> }

\* ------------------------------------------------------------------
\* State
\* ------------------------------------------------------------------

VARIABLES
    user_data,  \* context.user_data of every user: a dictionary from key to URL
    pc,         \* "idle", or the place of the running handler
    frame,      \* the running (or last) handler's update and local variables
    disk,       \* the temporary directories and downloaded files that exist
    status,     \* the text the handler's status message shows, None if nothing
    log,        \* the handler's calls to the outside, in order
    rendered,   \* the buttons the bot has put into chats
    n,          \* the number of updates processed
    result,     \* how the last handler ended: "none", "returned", "raised"
    taken,      \* history: the sessions a selection has read since their last write
    last_put,   \* history: the URL text of the last write of every session
    entry,      \* history: user_data and rendered when the handler started
    provided,   \* SpecStreams: the provider's list handed to the filter
    presented   \* SpecStreams: the filter's answer, None before the call

vars ==
    << user_data, pc, frame, disk, status, log, rendered, n, result, taken,
       last_put, entry, provided, presented >>

NoFrame ==
    [kind |-> "none", user |-> 0, chat |-> 0, text |-> << >>, button |-> None,
     message_text |-> << >>, yt |-> None, streams |-> << >>, keyboard |-> << >>,
     itag |-> 0, chat_id |-> 0, video_url |-> None, stream |-> None,
     file_path |-> None, path |-> "", prior_read |-> FALSE]

Init ==
    /\ user_data = [u \in Users |-> << >>]
    /\ pc = "idle"
    /\ frame = NoFrame
    /\ disk = {}
    /\ status = None
    /\ log = << >>
    /\ rendered = {}
    /\ n = 0
    /\ result = "none"
    /\ taken = {}
    /\ last_put = << >>
    /\ entry = [user_data |-> [u \in Users |-> << >>], rendered |-> {}]
    /\ provided = None
    /\ presented = None

\* one call to the outside
Call(op, arg) == [op |-> op, arg |-> arg]

\* where a handler goes next: a place of the handler, "return" (the handler
\* returns) or "escape" (an exception leaves the handler)
Goto(p) ==
    /\ pc' = IF p \in {"return", "escape"} THEN "idle" ELSE p
    /\ result' = CASE p = "return" -> "returned"
                   [] p = "escape" -> "raised"
                   [] OTHER -> result
    /\ n' = IF p \in {"return", "escape"} THEN n + 1 ELSE n

\* a reply_text or edit_text call after the calls l: it shows the text and the
\* handler goes to next, or it raises and the handler goes to exc
Show(l, op, text, next, exc) ==
    \E ok \in BOOLEAN :
        /\ log' = Append(l, Call(IF ok THEN op ELSE "raised", text))
        /\ status' = IF ok THEN Some(text) ELSE status
        /\ Goto(IF ok THEN next ELSE exc)

\* the two variables of SpecStreams, which the handlers leave alone
StreamVars == << provided, presented >>

\* ------------------------------------------------------------------
\* TelegramBot.handle_message
\* ------------------------------------------------------------------

\* the failure reasons that bring handle_message to the path of frame f:
\* `except Exception` in get_video_info and in get_progressive_streams drops
\* the kind of the provider's exception, so an unreachable provider and a
\* private or restricted video give the same None and the same empty list
ReasonsOf(f) ==
    IF f.path = "invalid_url" THEN {"invalid-url"}
    ELSE IF f.path = "info_failed"
         THEN {"provider-unreachable", "private-or-restricted"}
    ELSE IF f.path = "no_streams"
         THEN IF f.yt[1].streams = None
              THEN {"provider-unreachable", "private-or-restricted"}
              ELSE {"no-eligible-encoding"}
    ELSE {}

\* a text message of user u in chat c reaches the handler
StartMessage ==
    /\ pc = "idle"
    /\ n < MaxEvents
    /\ \E u \in Users, c \in Chats, t \in Texts :
        /\ Member(u, c)
        /\ frame' = [NoFrame EXCEPT !.kind = "message", !.user = u, !.chat = c,
                                    !.text = t, !.message_text = Strip(t)]
    /\ pc' = "hm_check"
    /\ result' = "running"
    /\ status' = None
    /\ log' = << >>
    /\ entry' = [user_data |-> user_data, rendered |-> rendered]
    /\ UNCHANGED << user_data, disk, rendered, n, taken, last_put, StreamVars >>

\* lines 135-147: the host check, then the processing message
hm_check ==
    /\ pc = "hm_check"
    /\ IF ~is_youtube_url(frame.message_text)
       THEN /\ Show(log, "reply_text", MSG_INVALID_URL, "return", "escape")
            /\ frame' = [frame EXCEPT !.path = "invalid_url"]
       ELSE /\ Show(log, "reply_text", MSG_PROCESSING, "hm_info", "escape")
            /\ frame' = frame
    /\ UNCHANGED << user_data, disk, rendered, taken, last_put, entry, StreamVars >>

\* lines 150-154
hm_info ==
    /\ pc = "hm_info"
    /\ \E yt \in get_video_info(frame.message_text) :
        LET l == Append(log, Call("get_video_info", IF yt = None THEN "None" ELSE "ok"))
        IN  IF yt = None
            THEN /\ Show(l, "edit_text", MSG_INFO_FAILED, "return", "hm_except")
                 /\ frame' = [frame EXCEPT !.path = "info_failed"]
            ELSE /\ log' = l
                 /\ Goto("hm_streams")
                 /\ frame' = [frame EXCEPT !.yt = yt]
                 /\ status' = status
    /\ UNCHANGED << user_data, disk, rendered, taken, last_put, entry, StreamVars >>

\* the session written as soon as the video is known, before the streams are looked at
hm_streams_put_first ==
    /\ pc = "hm_streams"
    /\ LET streams == get_progressive_streams(frame.yt[1].streams)
       IN  IF streams = << >>
           THEN /\ Show(log, "edit_text", MSG_NO_STREAMS, "return", "hm_except")
                /\ frame' = [frame EXCEPT !.path = "no_streams"]
           ELSE /\ Goto("hm_keyboard")
                /\ frame' = [frame EXCEPT !.streams = streams]
                /\ UNCHANGED << log, status >>
    /\ user_data' = [user_data EXCEPT
                       ![frame.user] = DictSet(@, SessionKey(frame.chat), frame.message_text)]
    /\ UNCHANGED << disk, rendered, taken, last_put, entry, StreamVars >>

\* lines 156-166
hm_streams ==
    /\ pc = "hm_streams"
    /\ LET streams == get_progressive_streams(frame.yt[1].streams)
       IN  IF streams = << >>
           THEN /\ Show(log, "edit_text", MSG_NO_STREAMS, "return", "hm_except")
                /\ frame' = [frame EXCEPT !.path = "no_streams"]
           ELSE /\ Goto("hm_keyboard")
                /\ frame' = [frame EXCEPT !.streams = streams]
                /\ UNCHANGED << log, status >>
    /\ UNCHANGED << user_data, disk, rendered, taken, last_put, entry, StreamVars >>

\* lines 168-183: the keyboard, then the title, author and length of the video
hm_keyboard ==
    /\ pc = "hm_keyboard"
    /\ IF frame.yt[1].meta_ok
       THEN /\ Goto("hm_put")
            /\ frame' = [frame EXCEPT !.keyboard = Keyboard(frame.streams, frame.chat)]
            /\ log' = log
       ELSE /\ Goto("hm_except")
            /\ frame' = [frame EXCEPT !.path = "resolution_exception"]
            /\ log' = Append(log, Call("raised", "yt.title"))
    /\ UNCHANGED << user_data, disk, status, rendered, taken, last_put, entry, StreamVars >>

\* a store that all members of the chat share
hm_put_shared ==
    /\ pc = "hm_put"
    /\ LET key == SessionKey(frame.chat)
       IN  /\ user_data' = [u \in Users |->
                              IF Member(u, frame.chat)
                              THEN SessionWrite(user_data[u], key, frame.message_text)
                              ELSE user_data[u]]
           /\ taken' = taken \ { << frame.user, key >> }
           /\ last_put' = DictSet(last_put, << frame.user, key >>, frame.message_text)
    /\ Goto("hm_render")
    /\ UNCHANGED << frame, disk, status, log, rendered, entry, StreamVars >>

\* line 186
hm_put ==
    /\ pc = "hm_put"
    /\ LET key == SessionKey(frame.chat)
       IN  /\ user_data' = [user_data EXCEPT
                              ![frame.user] = SessionWrite(@, key, frame.message_text)]
           /\ taken' = taken \ { << frame.user, key >> }
           /\ last_put' = DictSet(last_put, << frame.user, key >>, frame.message_text)
    /\ Goto("hm_render")
    /\ UNCHANGED << frame, disk, status, log, rendered, entry, StreamVars >>

\* line 188
hm_render ==
    /\ pc = "hm_render"
    /\ Show(log, "edit_text", MSG_CHOOSE, "return", "hm_except")
    /\ IF status' = Some(MSG_CHOOSE)
       THEN /\ rendered' = rendered \cup
                  { [data |-> frame.keyboard[k], chat |-> frame.chat,
                     itag |-> frame.streams[k].itag,
                     video |-> frame.yt[1].video_id] : k \in 1..Len(frame.keyboard) }
            /\ frame' = [frame EXCEPT !.path = "rendered"]
       ELSE /\ rendered' = rendered
            /\ frame' = [frame EXCEPT !.path = "render_failed"]
    /\ UNCHANGED << user_data, disk, taken, last_put, entry, StreamVars >>

\* lines 190-192
hm_except ==
    /\ pc = "hm_except"
    /\ Show(log, "edit_text", MSG_PROCESS_ERROR, "return", "escape")
    /\ UNCHANGED << user_data, frame, disk, rendered, taken, last_put, entry, StreamVars >>

\* ------------------------------------------------------------------
\* TelegramBot.handle_callback
\* ------------------------------------------------------------------

\* a selection event of user u reaches the handler: a press of a button in a
\* chat of the user, or a payload the client made up
StartCallback ==
    /\ pc = "idle"
    /\ n < MaxEvents
    /\ \/ \E u \in Users, b \in rendered :
            /\ Member(u, b.chat)
            /\ frame' = [NoFrame EXCEPT !.kind = "callback", !.user = u,
                                        !.chat = b.chat, !.text = b.data,
                                        !.button = Some(b)]
       \/ \E u \in Users, d \in CraftedData :
            frame' = [NoFrame EXCEPT !.kind = "callback", !.user = u,
                                     !.chat = u, !.text = d]
    /\ pc' = "cb_answer"
    /\ result' = "running"
    /\ status' = None
    /\ log' = << >>
    /\ entry' = [user_data |-> user_data, rendered |-> rendered]
    /\ UNCHANGED << user_data, disk, rendered, n, taken, last_put, StreamVars >>

\* line 197 left out: the handler goes on to the token unacknowledged
cb_answer_skipped ==
    /\ pc = "cb_answer"
    /\ Goto("cb_parse")
    /\ UNCHANGED << user_data, frame, disk, status, log, rendered, taken, last_put,
                    entry, StreamVars >>

\* line 197, before the try block
cb_answer ==
    /\ pc = "cb_answer"
    /\ \E ok \in BOOLEAN :
        /\ log' = Append(log, Call(IF ok THEN "answer" ELSE "raised", "answer"))
        /\ Goto(IF ok THEN "cb_parse" ELSE "escape")
    /\ UNCHANGED << user_data, frame, disk, status, rendered, taken, last_put,
                    entry, StreamVars >>

\* a parse that only asks for at least three fields
ParseCallback_at_least_three(data) ==
    LET parts == Split(data, "_")
    IN  IF ~StartsWith(data, DOWNLOAD_) THEN [next |-> "return", path |-> "not_download"]
        ELSE IF Len(parts) < 3 THEN [next |-> "return", path |-> "field_count"]
        ELSE IF ParseInt(parts[2]) = None \/ ParseInt(parts[3]) = None
             THEN [next |-> "cb_except", path |-> "value_error"]
        ELSE [next |-> "cb_session", path |-> "parsed",
              itag |-> ParseInt(parts[2])[1], chat_id |-> ParseInt(parts[3])[1]]

\* lines 200-209: None stands for the ValueError of int()
ParseCallback(data) ==
    LET parts == Split(data, "_")
    IN  IF ~StartsWith(data, DOWNLOAD_) THEN [next |-> "return", path |-> "not_download"]
        ELSE IF Len(parts) # 3 THEN [next |-> "return", path |-> "field_count"]
        ELSE IF ParseInt(parts[2]) = None \/ ParseInt(parts[3]) = None
             THEN [next |-> "cb_except", path |-> "value_error"]
        ELSE [next |-> "cb_session", path |-> "parsed",
              itag |-> ParseInt(parts[2])[1], chat_id |-> ParseInt(parts[3])[1]]

cb_parse ==
    /\ pc = "cb_parse"
    /\ LET r == ParseCallback(frame.text)
       IN  /\ Goto(r.next)
           /\ frame' = IF r.path = "parsed"
                       THEN [frame EXCEPT !.itag = r.itag, !.chat_id = r.chat_id,
                                          !.path = r.path]
                       ELSE [frame EXCEPT !.path = r.path]
           /\ log' = IF r.path = "value_error"
                     THEN Append(log, Call("raised", "int"))
                     ELSE log
    /\ UNCHANGED << user_data, disk, status, rendered, taken, last_put, entry, StreamVars >>

\* line 212: the read of the session
SessionRead(d, key) == DictGet(d, key)

\* lines 211-215
cb_session ==
    /\ pc = "cb_session"
    /\ LET key == SessionKey(frame.chat_id)
           video_url == SessionRead(user_data[frame.user], key)
           l == Append(log, Call("user_data.get", IF video_url = None THEN "None" ELSE "url"))
       IN  /\ taken' = taken \cup { << frame.user, key >> }
           /\ IF video_url = None \/ video_url[1] = << >>
              THEN /\ Show(l, "edit_message_text", MSG_EXPIRED, "return", "cb_except")
                   /\ frame' = [frame EXCEPT !.path = "expired",
                                  !.prior_read = << frame.user, key >> \in taken]
              ELSE /\ log' = l
                   /\ Goto("cb_downloading")
                   /\ frame' = [frame EXCEPT !.video_url = video_url,
                                  !.prior_read = << frame.user, key >> \in taken]
                   /\ status' = status
    /\ UNCHANGED << user_data, disk, rendered, last_put, entry, StreamVars >>

\* line 218
cb_downloading ==
    /\ pc = "cb_downloading"
    /\ Show(log, "edit_message_text", MSG_DOWNLOADING, "cb_info", "cb_except")
    /\ UNCHANGED << user_data, frame, disk, rendered, taken, last_put, entry, StreamVars >>

\* lines 220-224
cb_info ==
    /\ pc = "cb_info"
    /\ \E yt \in get_video_info(frame.video_url[1]) :
        LET l == Append(log, Call("get_video_info", IF yt = None THEN "None" ELSE "ok"))
        IN  IF yt = None
            THEN /\ Show(l, "edit_message_text", MSG_CB_INFO_FAILED, "return", "cb_except")
                 /\ frame' = [frame EXCEPT !.path = "info_failed"]
            ELSE /\ log' = l
                 /\ Goto("cb_find")
                 /\ frame' = [frame EXCEPT !.yt = yt]
                 /\ status' = status
    /\ UNCHANGED << user_data, disk, rendered, taken, last_put, entry, StreamVars >>

\* lines 226-235: reading yt.streams may raise
cb_find ==
    /\ pc = "cb_find"
    /\ LET streams == frame.yt[1].streams
       IN  IF streams = None
           THEN /\ log' = Append(log, Call("raised", "yt.streams"))
                /\ Goto("cb_except")
                /\ frame' = [frame EXCEPT !.path = "streams_raised"]
                /\ status' = status
           ELSE LET stream == FindStream(streams[1], frame.itag)
                IN  IF stream = None
                    THEN /\ Show(log, "edit_message_text", MSG_UNAVAILABLE,
                                 "return", "cb_except")
                         /\ frame' = [frame EXCEPT !.path = "unavailable"]
                    ELSE /\ Goto("cb_tempdir")
                         /\ frame' = [frame EXCEPT !.stream = stream]
                         /\ UNCHANGED << log, status >>
    /\ UNCHANGED << user_data, disk, rendered, taken, last_put, entry, StreamVars >>

\* line 238: entering the block creates the directory
cb_tempdir ==
    /\ pc = "cb_tempdir"
    /\ disk' = disk \cup { [kind |-> "dir", inv |-> n] }
    /\ log' = Append(log, Call("TemporaryDirectory", "enter"))
    /\ Goto("cb_download")
    /\ UNCHANGED << user_data, frame, status, rendered, taken, last_put, entry, StreamVars >>

\* lines 242-243 without the return: after the failure message the handler
\* goes on to the upload
cb_download_no_return ==
    /\ pc = "cb_download"
    /\ \E ok \in BOOLEAN, partial \in BOOLEAN :
        LET file_path == download_stream(ok, n)
            written == IF ok \/ partial THEN { [kind |-> "file", inv |-> n] } ELSE {}
            l == Append(log, Call("download", IF ok THEN "ok" ELSE "None"))
        IN  IF file_path = None
            THEN /\ Show(l, "edit_message_text", MSG_DOWNLOAD_FAILED, "cb_uploading",
                         "cb_except")
                 /\ disk' = IF pc' = "cb_except"
                            THEN ExitTempDir(disk \cup written, n, TRUE)
                            ELSE disk \cup written
                 /\ frame' = [frame EXCEPT !.path = "download_failed"]
            ELSE /\ log' = l
                 /\ Goto("cb_uploading")
                 /\ disk' = disk \cup written
                 /\ frame' = [frame EXCEPT !.file_path = file_path]
                 /\ status' = status
    /\ UNCHANGED << user_data, rendered, taken, last_put, entry, StreamVars >>

\* lines 239-243: a download that fails may leave a partial file behind; the
\* return at line 243 leaves the block
cb_download ==
    /\ pc = "cb_download"
    /\ \E ok \in BOOLEAN, partial \in BOOLEAN :
        LET file_path == download_stream(ok, n)
            written == IF ok \/ partial THEN { [kind |-> "file", inv |-> n] } ELSE {}
            l == Append(log, Call("download", IF ok THEN "ok" ELSE "None"))
        IN  IF file_path = None
            THEN /\ Show(l, "edit_message_text", MSG_DOWNLOAD_FAILED, "return", "cb_except")
                 /\ disk' = ExitTempDir(disk \cup written, n, pc' = "cb_except")
                 /\ frame' = [frame EXCEPT !.path = "download_failed"]
            ELSE /\ log' = l
                 /\ Goto("cb_uploading")
                 /\ disk' = disk \cup written
                 /\ frame' = [frame EXCEPT !.file_path = file_path]
                 /\ status' = status
    /\ UNCHANGED << user_data, rendered, taken, last_put, entry, StreamVars >>

\* line 246 left out: the upload starts under the 'downloading' message
cb_uploading_skipped ==
    /\ pc = "cb_uploading"
    /\ Goto("cb_send")
    /\ UNCHANGED << user_data, frame, disk, status, log, rendered, taken, last_put,
                    entry, StreamVars >>

\* line 246: an exception leaves the block
cb_uploading ==
    /\ pc = "cb_uploading"
    /\ Show(log, "edit_message_text", MSG_UPLOADING, "cb_send", "cb_except")
    /\ disk' = IF pc' = "cb_except" THEN ExitTempDir(disk, n, TRUE) ELSE disk
    /\ frame' = IF pc' = "cb_except" THEN [frame EXCEPT !.path = "upload_failed"] ELSE frame
    /\ UNCHANGED << user_data, rendered, taken, last_put, entry, StreamVars >>

\* an upload whose exception is dropped: the handler goes on as after a
\* delivery
cb_send_swallowed ==
    /\ pc = "cb_send"
    /\ \E ok \in BOOLEAN :
        LET sent == frame.yt[1].meta_ok /\ ok
        IN  /\ log' = Append(Append(log,
                        Call(IF sent THEN "send_video" ELSE "raised",
                             IF frame.yt[1].meta_ok THEN "send_video" ELSE "yt.title")),
                        Call("TemporaryDirectory", "exit"))
            /\ disk' = ExitTempDir(disk, n, ~sent)
            /\ Goto("cb_success")
            /\ frame' = [frame EXCEPT !.path = IF sent THEN "sent" ELSE "upload_failed"]
    /\ UNCHANGED << user_data, status, rendered, taken, last_put, entry, StreamVars >>

\* lines 248-257: the caption reads yt.title and yt.author; send_video may
\* raise; either way the block is left
cb_send ==
    /\ pc = "cb_send"
    /\ \E ok \in BOOLEAN :
        LET sent == frame.yt[1].meta_ok /\ ok
        IN  /\ log' = Append(Append(log,
                        Call(IF sent THEN "send_video" ELSE "raised",
                             IF frame.yt[1].meta_ok THEN "send_video" ELSE "yt.title")),
                        Call("TemporaryDirectory", "exit"))
            /\ disk' = ExitTempDir(disk, n, ~sent)
            /\ Goto(IF sent THEN "cb_success" ELSE "cb_except")
            /\ frame' = [frame EXCEPT !.path = IF sent THEN "sent" ELSE "upload_failed"]
    /\ UNCHANGED << user_data, status, rendered, taken, last_put, entry, StreamVars >>

\* line 260
cb_success ==
    /\ pc = "cb_success"
    /\ Show(log, "edit_message_text", MSG_SENT, "cb_pop", "cb_except")
    /\ UNCHANGED << user_data, frame, disk, rendered, taken, last_put, entry, StreamVars >>

\* line 263
cb_pop ==
    /\ pc = "cb_pop"
    /\ user_data' = [user_data EXCEPT
                       ![frame.user] = DictPop(@, SessionKey(frame.chat_id))]
    /\ log' = Append(log, Call("user_data.pop", "url"))
    /\ Goto("return")
    /\ UNCHANGED << frame, disk, status, rendered, taken, last_put, entry, StreamVars >>

\* lines 265-267
cb_except ==
    /\ pc = "cb_except"
    /\ Show(log, "edit_message_text", MSG_DOWNLOAD_ERROR, "return", "escape")
    /\ UNCHANGED << user_data, frame, disk, rendered, taken, last_put, entry, StreamVars >>

\* ------------------------------------------------------------------
\* The bot: updates are handled one after the other
\* ------------------------------------------------------------------

Next ==
    \/ StartMessage
    \/ hm_check
    \/ hm_info
    \/ hm_streams
    \/ hm_keyboard
    \/ hm_put
    \/ hm_render
    \/ hm_except
    \/ StartCallback
    \/ cb_answer
    \/ cb_parse
    \/ cb_session
    \/ cb_downloading
    \/ cb_info
    \/ cb_find
    \/ cb_tempdir
    \/ cb_download
    \/ cb_uploading
    \/ cb_send
    \/ cb_success
    \/ cb_pop
    \/ cb_except

Spec == Init /\ [][Next]_vars

\* a step of a handler that is under way: the event loop runs the coroutine
\* on whenever the call it awaits has returned or raised
HandlerStep ==
    \/ hm_check \/ hm_info \/ hm_streams \/ hm_keyboard \/ hm_put \/ hm_render
    \/ hm_except
    \/ cb_answer \/ cb_parse \/ cb_session \/ cb_downloading \/ cb_info \/ cb_find
    \/ cb_tempdir \/ cb_download \/ cb_uploading \/ cb_send \/ cb_success \/ cb_pop
    \/ cb_except

\* the bot before its last event: after a text that changed nothing, user 1
\* sent URL_A in the group chat, the provider listed itags 18 and 22 and the
\* buttons were rendered
InitLive ==
    /\ user_data = [u \in Users |->
                      IF u = 1 THEN SessionWrite(<< >>, SessionKey(0 - 3), URL_A)
                      ELSE << >>]
    /\ pc = "idle"
    /\ frame = NoFrame
    /\ disk = {}
    /\ status = None
    /\ log = << >>
    /\ rendered = { [data |-> callback_data(i, 0 - 3), chat |-> 0 - 3, itag |-> i,
                     video |-> VideoOf(URL_A)] : i \in {18, 22} }
    /\ n = MaxEvents - 1
    /\ result = "none"
    /\ taken = {}
    /\ last_put = DictSet(<< >>, << 1, SessionKey(0 - 3) >>, URL_A)
    /\ entry = [user_data |-> [u \in Users |-> << >>], rendered |-> {}]
    /\ provided = None
    /\ presented = None

\* the handling of that event when every call that a handler awaits returns or
\* raises
SpecLive == InitLive /\ [][Next]_vars /\ WF_vars(HandlerStep)

\* ------------------------------------------------------------------
\* The stream filter alone, on every list of at most MaxLen streams
\* ------------------------------------------------------------------

InitStreams ==
    /\ user_data = [u \in Users |-> << >>]
    /\ pc = "idle"
    /\ frame = NoFrame
    /\ disk = {}
    /\ status = None
    /\ log = << >>
    /\ rendered = {}
    /\ n = 0
    /\ result = "none"
    /\ taken = {}
    /\ last_put = << >>
    /\ entry = [user_data |-> [u \in Users |-> << >>], rendered |-> {}]
    /\ provided \in { None } \cup { Some(l) : l \in StreamLists(MaxLen) }
    /\ presented = None

\* streams = self.downloader.get_progressive_streams(yt)
ListStreams ==
    /\ presented = None
    /\ presented' = Some(get_progressive_streams(provided))
    /\ UNCHANGED << user_data, pc, frame, disk, status, log, rendered, n, result,
                    taken, last_put, entry, provided >>

SpecStreams == InitStreams /\ [][ListStreams]_vars

\* ------------------------------------------------------------------
\* Claims about the stream filter (SpecStreams)
\* ------------------------------------------------------------------

\* the positions of the progressive mp4 streams of a list
ProgressiveMp4At(l) ==
    { i \in 1..Len(l) : l[i].is_progressive /\ l[i].subtype = "mp4" }

\* the positions of the streams the answer holds
PresentedAt(out) == { out[k].stream : k \in 1..Len(out) }

\* the answer holds every stream once, as the provider reported it
PresentedAsProvided(l, out) ==
    /\ Cardinality(PresentedAt(out)) = Len(out)
    /\ \A k \in 1..Len(out) :
        /\ out[k].stream \in 1..Len(l)
        /\ out[k].itag = l[out[k].stream].itag
        /\ out[k].resolution = l[out[k].stream].resolution
        /\ Some(out[k].filesize) = l[out[k].stream].filesize

\* C1 as stated: the answer holds exactly the progressive mp4 streams whose
\* declared size is not null and at most 50 MiB (52,428,800 bytes)
C1_ExactlyNonNullUnderCeiling ==
    (provided # None /\ presented # None) =>
        /\ PresentedAsProvided(provided[1], presented[1])
        /\ PresentedAt(presented[1]) =
             { i \in ProgressiveMp4At(provided[1]) :
                 /\ provided[1][i].filesize # None
                 /\ provided[1][i].filesize[1] <= 52428800 }

\* C1 as amended: the answer holds exactly the progressive mp4 streams whose
\* declared size is not null, not zero and at most 50 MiB; a stream of missing
\* size, of size zero or of a size above the ceiling is never in it, and no
\* other progressive mp4 stream is dropped
C1_ExactlyPositiveUnderCeiling ==
    (provided # None /\ presented # None) =>
        /\ PresentedAsProvided(provided[1], presented[1])
        /\ PresentedAt(presented[1]) =
             { i \in ProgressiveMp4At(provided[1]) :
                 /\ provided[1][i].filesize # None
                 /\ provided[1][i].filesize[1] > 0
                 /\ provided[1][i].filesize[1] <= 52428800 }

\* C1's case: a list with a stream of exactly 50 MiB, which is presented, beside
\* a progressive mp4 stream above the ceiling, which is not
C1_Witness ==
    /\ provided # None
    /\ presented # None
    /\ \E i, j \in ProgressiveMp4At(provided[1]) :
        /\ provided[1][i].filesize = Some(52428800)
        /\ provided[1][j].filesize = Some(52428801)
        /\ i \in PresentedAt(presented[1])
        /\ j \notin PresentedAt(presented[1])

\* the numeric component of a resolution label; a stream without a label
\* counts as 0
NumericResolution(r) ==
    CASE r = None -> 0
      [] r = Some(<< "3", "6", "0", "p" >>) -> 360
      [] r = Some(<< "7", "2", "0", "p" >>) -> 720

\* C2: the presented streams are in non-ascending order of the numeric
\* component of their resolution label, and two streams of the same numeric
\* resolution are in the order of the provider's list
C2_SortedDescendingStable ==
    presented # None =>
        \A i, j \in 1..Len(presented[1]) :
            i < j =>
                LET a == presented[1][i]
                    b == presented[1][j]
                IN  /\ NumericResolution(a.resolution) >= NumericResolution(b.resolution)
                    /\ NumericResolution(a.resolution) = NumericResolution(b.resolution)
                         => a.stream < b.stream

\* C2's case: the provider lists a lower resolution before a higher one and
\* both streams are presented, the higher one first
C2_Witness ==
    /\ provided # None
    /\ presented # None
    /\ Len(presented[1]) = 2
    /\ presented[1][1].stream > presented[1][2].stream
    /\ NumericResolution(presented[1][1].resolution)
         > NumericResolution(presented[1][2].resolution)

\* ------------------------------------------------------------------
\* Claims about the handlers (Spec)
\* ------------------------------------------------------------------

\* the last handler has ended, by a return or by an exception that left it
Finished == pc = "idle" /\ result \in {"returned", "raised"}

\* the handler has made a call of one of these kinds
Called(ops) == \E i \in 1..Len(log) : log[i].op \in ops

\* the session of the running selection is (still) in the store
SessionPresent == SessionKey(frame.chat_id) \in DOMAIN user_data[frame.user]

\* C3: whenever a selection handler is outside the block that holds the
\* temporary directory, and so whenever it has ended on any path, no staged
\* directory or file is on disk
C3_StagedFileRemoved ==
    pc \notin {"cb_download", "cb_uploading", "cb_send"} => disk = {}

\* C3's case: the download put a file on disk, the upload raised, the handler
\* has returned
C3_Witness ==
    /\ Finished
    /\ frame.kind = "callback"
    /\ frame.file_path # None
    /\ frame.path = "upload_failed"
    /\ Called({"download"})

\* C4: a selection whose session an earlier selection has read since the
\* session's last write finds no session and makes no provider call
C4_ReadConsumes ==
    (frame.kind = "callback" /\ frame.prior_read) =>
        /\ frame.video_url = None
        /\ ~Called({"get_video_info"})

\* C5: when a selection handler that began a download attempt has ended, by
\* success or failure, its session is not in the store
C5_SessionRemovedAfterAttempt ==
    (Finished /\ frame.kind = "callback" /\ frame.video_url # None) => ~SessionPresent

\* C6: no handler ends with an exception leaving it
C6_NoEscape == result # "raised"

Malformed(data) ==
    LET parts == Split(data, "_")
    IN  Len(parts) # 3 \/ ParseInt(parts[2]) = None

WellShaped(data) == StartsWith(data, DOWNLOAD_) /\ Len(Split(data, "_")) = 3

ResolutionFailures == {"invalid_url", "info_failed", "no_streams", "resolution_exception"}

\* C9: a text handler changes the session store, or renders buttons, only with
\* a non-empty list of streams in hand; one that fails on the host check, the
\* provider, an empty list or an exception while resolving leaves the store as
\* it found it and renders nothing
C9_SessionOnlyOnResolution ==
    frame.kind = "message" =>
        /\ user_data # entry.user_data => (frame.yt # None /\ frame.streams # << >>)
        /\ rendered # entry.rendered => (frame.yt # None /\ frame.streams # << >>)
        /\ frame.path \in ResolutionFailures =>
              (user_data = entry.user_data /\ rendered = entry.rendered)

\* C9's case: a URL whose video has no stream that fits was sent in a chat that
\* holds a session; the handler has ended
C9_Witness ==
    /\ Finished
    /\ frame.kind = "message"
    /\ frame.path = "no_streams"
    /\ SessionKey(frame.chat) \in DOMAIN user_data[frame.user]

C11_AcknowledgedFirst ==
    frame.kind = "callback" =>
        /\ pc = "cb_answer" =>
               log = << >> /\ frame.path = "" /\ status = None /\ frame.video_url = None
        /\ pc # "cb_answer" =>
               /\ Len(log) >= 1
               /\ log[1] \in { Call("answer", "answer"), Call("raised", "answer") }
               /\ \A i \in 2..Len(log) : log[i].op # "answer" /\ log[i].arg # "answer"
               /\ (Len(log) >= 2 \/ frame.path # "" \/ status # None) =>
                      log[1].op = "answer"

\* C11's case: a selection was acknowledged and then went through the session
\* read, the provider, the download, the upload and the status edits
C11_Witness ==
    /\ Finished
    /\ frame.kind = "callback"
    /\ log[1] = Call("answer", "answer")
    /\ Called({"user_data.get"}) /\ Called({"get_video_info"})
    /\ Called({"download"}) /\ Called({"send_video"})
    /\ status = Some(MSG_SENT)

\* the selection of the running handler named a format that the list the
\* provider gave on the re-fetch does not hold, and the lookup is past
FormatGone ==
    /\ frame.kind = "callback"
    /\ frame.yt # None
    /\ pc # "cb_find"
    /\ frame.yt[1].streams # None
    /\ \A i \in 1..Len(frame.yt[1].streams[1]) :
           frame.yt[1].streams[1][i].itag # frame.itag

\* C12: when the selected format is not in the re-fetched list, the handler
\* reports 'selected quality is no longer available' and nothing else happens:
\* no temporary directory, no download, no delivery, nothing on disk; when the
\* edit that carries the message goes through it is the last message and the
\* handler returns
C12_UnavailableNoDownload ==
    FormatGone =>
        /\ frame.path = "unavailable"
        /\ frame.stream = None /\ frame.file_path = None
        /\ ~Called({"TemporaryDirectory", "download", "send_video"})
        /\ disk = {}
        /\ \E i \in 1..Len(log) : log[i].arg = MSG_UNAVAILABLE
        /\ Call("edit_message_text", MSG_UNAVAILABLE) = log[Len(log)] =>
               /\ status = Some(MSG_UNAVAILABLE)
               /\ Finished /\ result = "returned"

\* C12's case: a button of a format was pressed, the re-fetched list holds
\* other formats only, and the handler has ended with the message
C12_Witness ==
    /\ Finished
    /\ FormatGone
    /\ frame.button # None
    /\ frame.yt[1].streams[1] # << >>
    /\ status = Some(MSG_UNAVAILABLE)

\* the download of the running selection gave a file and the upload (the
\* caption's reads or send_video) raised
UploadRaised ==
    /\ frame.kind = "callback"
    /\ Called({"download"}) /\ frame.file_path # None
    /\ \E i \in 1..Len(log) :
           log[i] \in { Call("raised", "send_video"), Call("raised", "yt.title") }

\* C13: after a download that succeeded and an upload that raised, the success
\* message is never shown, the staged directory and file are gone, and the
\* handler reports the failure: the error message is the last message
\* whenever the handler returns
C13_UploadFailureReported ==
    UploadRaised =>
        /\ pc \in {"cb_except", "idle"}
        /\ disk = {}
        /\ status # Some(MSG_SENT)
        /\ \A i \in 1..Len(log) : log[i].arg # MSG_SENT /\ log[i].op # "send_video"
        /\ Finished => \E i \in 1..Len(log) : log[i].arg = MSG_DOWNLOAD_ERROR
        /\ (Finished /\ result = "returned") => status = Some(MSG_DOWNLOAD_ERROR)

\* C13's case: the file was staged, send_video raised, and the handler has
\* returned after the error message
C13_Witness ==
    /\ Finished
    /\ UploadRaised
    /\ Call("raised", "send_video") = log[Len(log) - 2]
    /\ status = Some(MSG_DOWNLOAD_ERROR)

\* a call the requester sees the effect of: a status edit that went through,
\* or the delivery of the file
IsEffect(c) == c.op \in {"edit_message_text", "send_video"}

\* the effects of a selection that succeeds, in the order of the code
SuccessEffects ==
    << Call("edit_message_text", MSG_DOWNLOADING),
       Call("edit_message_text", MSG_UPLOADING),
       Call("send_video", "send_video"),
       Call("edit_message_text", MSG_SENT) >>

\* C14: in a selection handler the file is delivered only after the
\* 'downloading' and the 'uploading' edits, in this order and once each, the
\* success edit comes only after the delivery, and a selection that succeeds
\* has made exactly these four effects, once each
C14_EffectsInOrder ==
    frame.kind = "callback" =>
        LET e == SelectSeq(log, IsEffect)
        IN  /\ (\E i \in 1..Len(e) : e[i].op = "send_video") =>
                   /\ Len(e) >= 3
                   /\ SubSeq(e, 1, 3) = SubSeq(SuccessEffects, 1, 3)
            /\ (\E i \in 1..Len(e) : e[i].arg = MSG_SENT) => e = SuccessEffects
            /\ pc = "cb_pop" => e = SuccessEffects
            /\ (Called({"user_data.pop"}) /\ Finished) =>
                   e = SuccessEffects /\ status = Some(MSG_SENT)

\* C14's case: a selection succeeded and its handler has returned
C14_Witness ==
    /\ Finished
    /\ frame.kind = "callback"
    /\ result = "returned"
    /\ frame.path = "sent"
    /\ Called({"user_data.pop"})
    /\ SelectSeq(log, IsEffect) = SuccessEffects

\* C15: a text that holds none of the YouTube hosts is answered by the
\* invalid-URL reply alone: the handler ends at once, the provider is not
\* called, no session is written and no controls are rendered
C15_NonYoutubeRejected ==
    (frame.kind = "message" /\ frame.text = NOT_A_URL) =>
        /\ pc = "hm_check" => log = << >>
        /\ pc # "hm_check" =>
               /\ Finished
               /\ frame.path = "invalid_url"
               /\ log \in { << Call("reply_text", MSG_INVALID_URL) >>,
                            << Call("raised", MSG_INVALID_URL) >> }
               /\ result = "returned" => status = Some(MSG_INVALID_URL)
        /\ ~Called({"get_video_info"}) /\ frame.yt = None
        /\ user_data = entry.user_data
        /\ rendered = entry.rendered /\ frame.keyboard = << >>

\* C15's case: a text without a YouTube host was sent by a user who holds a
\* session in the chat, and the reply was made
C15_Witness ==
    /\ Finished
    /\ frame.kind = "message"
    /\ frame.text = NOT_A_URL
    /\ status = Some(MSG_INVALID_URL)
    /\ SessionKey(frame.chat) \in DOMAIN user_data[frame.user]

\* C16: a handler that runs for one requester leaves the sessions of every
\* other requester as they were when it started, also under the same key, and
\* the URL a selection resolves was in the requester's own store when the
\* handler started and was written there by a text of this requester
C16_NoInterference ==
    frame.kind \in {"message", "callback"} =>
        /\ \A u \in Users \ {frame.user} : user_data[u] = entry.user_data[u]
        /\ (frame.kind = "callback" /\ frame.video_url # None) =>
               /\ frame.video_url =
                      DictGet(entry.user_data[frame.user], SessionKey(frame.chat_id))
               /\ \E c \in Chats :
                      /\ Member(frame.user, c)
                      /\ DictGet(last_put, << frame.user, SessionKey(c) >>) =
                             frame.video_url

\* C16's case: two requesters hold sessions under the same key with different
\* URLs, and the selection of one of them delivered the video of its own URL
C16_Witness ==
    /\ Finished
    /\ frame.kind = "callback"
    /\ frame.path = "sent"
    /\ \E u \in Users \ {frame.user} :
           LET other == DictGet(entry.user_data[u], SessionKey(frame.chat_id))
           IN  /\ other # None
               /\ other # frame.video_url
               /\ frame.yt[1].video_id # VideoOf(other[1])
               /\ DictGet(user_data[u], SessionKey(frame.chat_id)) = other

\* C17: the message handle_message shows for a resolution failure tells the
\* reason: no run that ends with a failure message is the run of two of the
\* four reasons (invalid URL, provider unreachable, private or restricted
\* video, no eligible encoding)
C17_MessageTellsReason ==
    (Finished /\ frame.kind = "message" /\ result = "returned"
        /\ status \in { Some(MSG_INVALID_URL), Some(MSG_INFO_FAILED),
                        Some(MSG_NO_STREAMS) }) =>
        \A r1 \in ReasonsOf(frame), r2 \in ReasonsOf(frame) : r1 = r2

\* the executor's state in which a selection handler is: Accepted before the
\* re-fetch, then the states of the pipeline; a handler that has ended is Done
\* after the removal of the session and Aborted otherwise
Phase ==
    IF frame.kind # "callback" THEN "None"
    ELSE IF pc \in {"cb_answer", "cb_parse", "cb_session", "cb_downloading"}
         THEN "Accepted"
    ELSE IF pc \in {"cb_info", "cb_find"} THEN "Resolving"
    ELSE IF pc \in {"cb_tempdir", "cb_download"} THEN "Downloading"
    ELSE IF pc \in {"cb_uploading", "cb_send"} THEN "Uploading"
    ELSE IF pc \in {"cb_success", "cb_pop"} THEN "Cleanup"
    ELSE IF pc = "idle" /\ Called({"user_data.pop"}) THEN "Done"
    ELSE "Aborted"

\* a step of a selection handler in which something failed: a call raised,
\* the session or the format was not there, the provider or the download
\* gave nothing
StepFailed ==
    \/ \E i \in (Len(log) + 1)..Len(log') :
           \/ log'[i].op = "raised"
           \/ log'[i] \in { Call("user_data.get", "None"), Call("get_video_info", "None"),
                            Call("download", "None") }
    \/ frame'.path \in {"unavailable", "value_error"} /\ frame.path # frame'.path

\* the moves between the states: one state forward when the step did not fail
\* and left what the next state works on, disk clean from Cleanup on; Aborted
\* when the step failed
PhaseStep ==
    LET p == Phase
        q == Phase'
    IN  \/ p = q
        \/ p \in {"None", "Done", "Aborted"} /\ q \in {"None", "Accepted"}
        \/ p \in {"Accepted", "Resolving", "Downloading", "Uploading", "Cleanup"}
           /\ IF StepFailed
              THEN q = "Aborted"
              ELSE \/ p = "Accepted" /\ q = "Aborted" /\ pc' = "idle"
                   \/ p = "Accepted" /\ q = "Resolving" /\ frame'.video_url # None
                   \/ p = "Resolving" /\ q = "Downloading" /\ frame'.stream # None
                   \/ p = "Downloading" /\ q = "Uploading" /\ frame'.file_path # None
                   \/ p = "Uploading" /\ q = "Cleanup" /\ disk' = {}
                      /\ log'[Len(log') - 1] = Call("send_video", "send_video")
                   \/ p = "Cleanup" /\ q = "Done" /\ disk' = {}

\* C18: a selection handler moves through Resolving, Downloading, Uploading,
\* Cleanup and Done one state at a time in this order and leaves for Aborted
\* with the step that fails; when every awaited call returns or raises, every
\* invocation ends, Done or Aborted
C18_PhasesInOrderToTheEnd ==
    /\ [][PhaseStep]_vars
    /\ (frame.kind = "callback" /\ pc = "cb_answer") ~>
           (pc = "idle" /\ Phase \in {"Done", "Aborted"})

\* C18's case: a selection has gone through every state and is Done
C18_Witness ==
    /\ Phase = "Done"
    /\ result = "returned"
    /\ frame.stream # None /\ frame.file_path # None
    /\ Called({"send_video"})
    /\ disk = {}

\* the positions in the log at which the file was handed to the transport
Deliveries == { i \in 1..Len(log) : log[i].op = "send_video" }

\* C19: a selection handler delivers at most one file, and only after it
\* found the selected format in the re-fetched list and a download of it
\* in this invocation gave a file; it delivers none when the session is
\* missing, the re-fetch fails, the format is not found or the download fails
C19_DeliveryOnlyAfterDownload ==
    frame.kind = "callback" =>
        /\ Cardinality(Deliveries) <= 1
        /\ \A i \in Deliveries :
               /\ \E j \in 1..(i - 1) : log[j] = Call("download", "ok")
               /\ frame.video_url # None /\ frame.yt # None
               /\ frame.stream # None /\ frame.file_path # None
               /\ frame.yt[1].streams[1][frame.stream[1]].itag = frame.itag
               /\ frame.file_path[1].inv = n - (IF pc = "idle" THEN 1 ELSE 0)
        /\ ( \/ \E j \in 1..Len(log) :
                    log[j] \in { Call("user_data.get", "None"),
                                 Call("get_video_info", "None"),
                                 Call("download", "None") }
             \/ FormatGone ) => Deliveries = {}

\* C19's case: a button was pressed and its format was downloaded and
\* delivered, once
C19_Witness ==
    /\ frame.kind = "callback"
    /\ frame.button # None
    /\ Cardinality(Deliveries) = 1
    /\ \E j \in 1..Len(log) : log[j] = Call("download", "ok")
    /\ frame.button[1].itag = frame.itag

\* C20: when a selection handler that delivered the file has returned, the
\* session under its key is gone and the last message shown is the success
\* message
C20_DeliveredThenCleared ==
    (Finished /\ result = "returned" /\ frame.kind = "callback"
        /\ Called({"send_video"})) =>
        /\ ~SessionPresent
        /\ status = Some(MSG_SENT)

====
